---- MODULE Spec2Model ----
(***************************************************************************)
(* french-press: the scope manager (src/src/lib.rs), the frame operations  *)
(* (src/src/alloc/scope/mod.rs) and the tri-colour heap                    *)
(* (src/src/alloc/scope.rs), as a state machine.                           *)
(*                                                                         *)
(* Spec       : the ScopeManager driven by its public operations.          *)
(* SpecYield  : the same, from the state test_transfer_stack_with_yield    *)
(*              builds.                                                    *)
(* SpecGC     : the heap alone, driven by alloc / mark_roots / mark_phase  *)
(*              / sweep_phase, with the hash-order iteration of the two    *)
(*              mark loops left open (one loop iteration per step).        *)
(* SpecGCFair : SpecGC with the loop of mark_phase running to its end.     *)
(***************************************************************************)
EXTENDS Integers, Sequences, FiniteSets, TLC

\* ---------------------------------------------------------------- bounds
MaxId == 2          \* identities the interpreter binds in frames are 1..MaxId
MaxHeapId == 3      \* identities a heap entry can have are 1..MaxHeapId
MaxClosure == 2     \* capture identities (closure keys) are 1..MaxClosure
MaxDepth == 3       \* frames on the live stack
MaxOps == 5         \* operations a Spec behaviour performs
MaxCycles == 2      \* collection cycles a SpecGC behaviour starts
MaxAllocs == 3      \* allocations a SpecGC behaviour makes

\* Tunable GC parameter (64 in the source).  The model runs the same test,
\* len() > GC_THRESHOLD, with the parameter scaled down so that heaps of
\* two entries are collected, as in test_transfer_stack_with_yield.
GC_THRESHOLD == 1

Ids == 1..MaxId
HeapIds == 1..MaxHeapId
CIds == 1..MaxClosure

\* ------------------------------------------------------------ data model
\* JsVar.t: "ptr" is JsType::JsPtr, "n0"/"n1" are two JsNum immediates.
Nums == {"n0", "n1"}
JsTypes == {"ptr"} \cup Nums
NoVar == "none"

\* JsPtrEnum: a JsStr (a leaf) or a JsObj with the identities it references.
NoPtr == [variant |-> "None", children |-> {}]
JsStr == [variant |-> "Str", children |-> {}]
JsObj(c) == [variant |-> "Obj", children |-> c]
Payloads == {JsStr} \cup {JsObj(c) : c \in SUBSET Ids}
HeapPayloads == {JsStr} \cup {JsObj(c) : c \in SUBSET HeapIds}

EmptySet == [i \in HeapIds |-> NoPtr]

VARIABLES
    scopes,     \* ScopeManager.scopes: the live stack, bottom first
    closures,   \* ScopeManager.closures: capture identity -> frame
    heap,       \* the shared heap: white_set, grey_set, black_set
    ret,        \* what the last operation was and what it returned
    ops,        \* Spec: operations performed so far
    pc,         \* SpecGC: where the collection cycle stands
    marks,      \* SpecGC: roots mark_roots has still to visit
    gc0,        \* SpecGC: the heap and root set the cycle started from
    gcn         \* SpecGC: cycles started and allocations made so far

vars == <<scopes, closures, heap, ret, ops, pc, marks, gc0, gcn>>

\* ------------------------------------------------------------------ heap
\* struct Scope { black_set, grey_set, white_set }
NewHeap == [white_set |-> EmptySet, grey_set |-> EmptySet, black_set |-> EmptySet]

\* Scope::find_id
find_id(h, uuid) ==
    IF h.black_set[uuid] # NoPtr THEN h.black_set[uuid]
    ELSE IF h.grey_set[uuid] # NoPtr THEN h.grey_set[uuid]
    ELSE h.white_set[uuid]

is_allocated(h, uuid) == find_id(h, uuid) # NoPtr

Allocated(h) == {i \in HeapIds : is_allocated(h, i)}

heap_len(h) == Cardinality(Allocated(h))

\* Scope::alloc: white_set.insert(uuid, var)
heap_alloc(h, uuid, ptr) == [h EXCEPT !.white_set[uuid] = ptr]

\* Scope::get_var_children
get_var_children(ptr) == IF ptr.variant = "Obj" THEN ptr.children ELSE {}

\* Scope::grey_children: every child still white moves to the grey set
grey_children(h, child_ids) ==
    LET moved == {c \in child_ids : h.white_set[c] # NoPtr}
    IN  [h EXCEPT
           !.white_set = [i \in HeapIds |-> IF i \in moved THEN NoPtr ELSE h.white_set[i]],
           !.grey_set  = [i \in HeapIds |-> IF i \in moved THEN h.white_set[i] ELSE h.grey_set[i]]]

\* One iteration of the loop of Scope::mark_roots
mark_root(h, mark) ==
    IF h.white_set[mark] # NoPtr
    THEN LET var == h.white_set[mark]
             h1  == [h EXCEPT !.white_set[mark] = NoPtr, !.black_set[mark] = var]
         IN  grey_children(h1, get_var_children(var))
    ELSE h

\* mark_grey that greys every child the heap holds, the black ones included
mark_grey_regreys_children(h, uuid) ==
    LET var  == h.grey_set[uuid]
        h1   == [h EXCEPT !.grey_set[uuid] = NoPtr, !.black_set[uuid] = var]
        kids == {c \in get_var_children(var) : find_id(h1, c) # NoPtr}
    IN  [white_set |-> [i \in HeapIds |-> IF i \in kids THEN NoPtr ELSE h1.white_set[i]],
         grey_set  |-> [i \in HeapIds |-> IF i \in kids THEN find_id(h1, i)
                                          ELSE h1.grey_set[i]],
         black_set |-> [i \in HeapIds |-> IF i \in kids THEN NoPtr ELSE h1.black_set[i]]]

\* mark_grey with the grey uuid turned black and its children left white
mark_grey_forgets_children(h, uuid) ==
    [h EXCEPT !.grey_set[uuid] = NoPtr, !.black_set[uuid] = h.grey_set[uuid]]

\* One iteration of the loop of Scope::mark_phase, for a grey uuid
mark_grey(h, uuid) ==
    LET var == h.grey_set[uuid]
        h1  == [h EXCEPT !.grey_set[uuid] = NoPtr, !.black_set[uuid] = var]
    IN  grey_children(h1, get_var_children(var))

Greys(h) == {i \in HeapIds : h.grey_set[i] # NoPtr}

\* sweep_phase that also turns the black survivors white
sweep_phase_resets_black(h) ==
    [h EXCEPT !.white_set = h.black_set, !.black_set = EmptySet]

\* Scope::sweep_phase: white_set.clear()
sweep_phase(h) == [h EXCEPT !.white_set = EmptySet]

\* Scope::mark_roots, the whole loop (the set is visited in some order)
RECURSIVE mark_roots(_, _)
mark_roots(h, ms) ==
    IF ms = {} THEN h
    ELSE LET m == CHOOSE x \in ms : TRUE
         IN  mark_roots(mark_root(h, m), ms \ {m})

\* Scope::mark_phase, the whole loop
RECURSIVE mark_phase(_)
mark_phase(h) ==
    IF Greys(h) = {} THEN h
    ELSE mark_phase(mark_grey(h, CHOOSE x \in Greys(h) : TRUE))

\* ----------------------------------------------------------------- frame
\* struct Scope { stack, tag }.  tag is "Call", "Block" or "Closure"; unique
\* is the capture identity of a Closure tag and 0 otherwise.
EmptyStack == [i \in Ids |-> NoVar]
NewScope(tag, unique) == [tag |-> tag, unique |-> unique, stack |-> EmptyStack]
NoScope == [tag |-> "None", unique |-> 0, stack |-> EmptyStack]

\* Scope::push: the binding is inserted whatever the allocation returned
push(f, h, uuid, t, ptr) ==
    LET res == IF t = "ptr" /\ ptr = NoPtr THEN "PtrError" ELSE "Ok"
        h1  == IF t = "ptr" /\ ptr # NoPtr THEN heap_alloc(h, uuid, ptr) ELSE h
    IN  [scope |-> [f EXCEPT !.stack[uuid] = t], heap |-> h1, res |-> res]

\* Scope::own
own(f, uuid, t) == [f EXCEPT !.stack[uuid] = t]

\* Scope::get_var_copy
get_var_copy(f, h, uuid) ==
    IF f.stack[uuid] # NoVar
    THEN IF f.stack[uuid] = "ptr"
         THEN IF find_id(h, uuid) # NoPtr
              THEN [var |-> f.stack[uuid], ptr |-> find_id(h, uuid)]
              ELSE [var |-> NoVar, ptr |-> NoPtr]
         ELSE [var |-> f.stack[uuid], ptr |-> NoPtr]
    ELSE [var |-> NoVar, ptr |-> NoPtr]

\* The LookupError a frame reports to ScopeManager::load: a binding whose
\* heap entry is missing is Unreachable, a miss is CheckParent on a Block
\* frame and FnBoundary on a Call or Closure frame.
get_var(f, h, uuid) ==
    LET c == get_var_copy(f, h, uuid)
    IN  IF c.var # NoVar THEN [res |-> "Ok", var |-> c.var, ptr |-> c.ptr]
        ELSE [res |-> IF f.stack[uuid] # NoVar THEN "Unreachable"
                      ELSE IF f.tag = "Block" THEN "CheckParent"
                      ELSE "FnBoundary",
              var |-> NoVar, ptr |-> NoPtr]

\* AllocBox::update_ptr: the payload of an allocated identity is replaced by
\* the one given, whatever its variant (test_update_var replaces a JsSym by
\* a JsStr and expects Ok); an identity the heap does not hold is an error.
update_ptr(h, uuid, ptr) ==
    IF ~is_allocated(h, uuid) THEN [heap |-> h, res |-> "UnknownIdentity"]
    ELSE [heap |-> IF h.black_set[uuid] # NoPtr THEN [h EXCEPT !.black_set[uuid] = ptr]
                   ELSE IF h.grey_set[uuid] # NoPtr THEN [h EXCEPT !.grey_set[uuid] = ptr]
                   ELSE [h EXCEPT !.white_set[uuid] = ptr],
          res |-> "Ok"]

\* update_var with an immediate accepted and the binding left as it was
update_var_keeps_binding(f, h, uuid, t, ptr) ==
    IF t = "ptr"
    THEN IF ptr # NoPtr
         THEN LET u == update_ptr(h, uuid, ptr)
              IN  [scope |-> f, heap |-> u.heap, res |-> u.res]
         ELSE [scope |-> f, heap |-> h, res |-> "PtrError"]
    ELSE IF f.stack[uuid] # NoVar
         THEN [scope |-> f, heap |-> h, res |-> "Ok"]
         ELSE [scope |-> f, heap |-> h, res |-> "StoreError"]

\* Scope::update_var
update_var(f, h, uuid, t, ptr) ==
    IF t = "ptr"
    THEN IF ptr # NoPtr
         THEN LET u == update_ptr(h, uuid, ptr)
              IN  [scope |-> f, heap |-> u.heap, res |-> u.res]
         ELSE [scope |-> f, heap |-> h, res |-> "PtrError"]
    ELSE IF f.stack[uuid] # NoVar
         THEN [scope |-> [f EXCEPT !.stack[uuid] = t], heap |-> h, res |-> "Ok"]
         ELSE [scope |-> f, heap |-> h, res |-> "StoreError"]

\* The StoreError a frame reports to ScopeManager::store for the result of
\* update_var: a missing local binding escalates by the frame's tag, a
\* variant change is PtrTypeMismatch, every other failure is BadStore.
StoreOutcome(f, res) ==
    CASE res = "Ok" -> "Ok"
      [] res = "StoreError" -> IF f.tag = "Block" THEN "CheckParent" ELSE "FnBoundary"
      [] res = "PtrTypeMismatch" -> "PtrTypeMismatch"
      [] OTHER -> "BadStore"

\* transfer_stack with every binding of the source given to dest
transfer_stack_moves_all(f, dest) ==
    [dest EXCEPT !.stack = [i \in Ids |-> IF f.stack[i] # NoVar THEN f.stack[i]
                                          ELSE dest.stack[i]]]

\* Scope::transfer_stack, the drain loop: pointer bindings go to dest, the
\* others are dropped, and the source is left empty.
transfer_stack(f, dest) ==
    [dest EXCEPT !.stack = [i \in Ids |-> IF f.stack[i] = "ptr" THEN "ptr"
                                          ELSE dest.stack[i]]]
Drained(f) == [f EXCEPT !.stack = EmptyStack]

\* The root set of a frame: the identities its pointer bindings name.
get_roots(f) == {i \in Ids : f.stack[i] = "ptr"}

\* trigger_gc without the test of the heap's length
trigger_gc_always(f, h) ==
    sweep_phase(mark_phase(mark_roots(h, get_roots(f))))

\* trigger_gc with >= for > in the test of the heap's length
trigger_gc_at_threshold(f, h) ==
    IF heap_len(h) >= GC_THRESHOLD
    THEN sweep_phase(mark_phase(mark_roots(h, get_roots(f))))
    ELSE h

\* Scope::trigger_gc: the collection of Scope::transfer_stack
trigger_gc(f, h) ==
    IF heap_len(h) > GC_THRESHOLD
    THEN sweep_phase(mark_phase(mark_roots(h, get_roots(f))))
    ELSE h

\* --------------------------------------------------------------- manager
Ret(op, id, res) == [op |-> op, id |-> id, res |-> res, var |-> NoVar, ptr |-> NoPtr]
RetV(op, id, res, var, ptr) == [op |-> op, id |-> id, res |-> res, var |-> var, ptr |-> ptr]

NoClosures == [c \in CIds |-> NoScope]
GcIdle == [heap |-> NewHeap, roots |-> {}, white |-> TRUE]

\* ScopeManager::new / init_gc
Init ==
    /\ scopes = <<NewScope("Call", 0)>>
    /\ closures = NoClosures
    /\ heap = NewHeap
    /\ ret = Ret("init", 0, "Ok")
    /\ ops = 0
    /\ pc = "idle"
    /\ marks = {}
    /\ gc0 = GcIdle
    /\ gcn = [cycles |-> 0, allocs |-> 0]

\* A panic (expect, unwrap, unreachable!) ends the program.
Running == ret.res # "panic"

\* One more operation of the interpreter
Step == Running /\ ops < MaxOps /\ ops' = ops + 1 /\ UNCHANGED <<pc, marks, gc0, gcn>>

\* What the interpreter passes to alloc and store: a JsVar type with an
\* optional payload
Inputs == {<<"ptr", p>> : p \in Payloads \cup {NoPtr}}
          \cup {<<n, p>> : n \in Nums, p \in {NoPtr, JsStr}}

Front(s) == SubSeq(s, 1, Len(s) - 1)
Last(s) == s[Len(s)]
SetLast(s, f) == [s EXCEPT ![Len(s)] = f]

\* push_closure_scope with the whole table emptied instead of one key removed
push_closure_scope_clears_table(closure) ==
    /\ Step
    /\ Len(scopes) < MaxDepth
    /\ IF closures[closure] = NoScope
       THEN /\ ret' = Ret("push_closure_scope", closure, "Scope")
            /\ UNCHANGED <<scopes, closures>>
       ELSE /\ scopes' = Append(scopes, closures[closure])
            /\ closures' = NoClosures
            /\ ret' = Ret("push_closure_scope", closure, "Ok")
    /\ UNCHANGED heap

\* push_closure_scope that enters a new Closure frame when the key is absent
push_closure_scope_creates_frame(closure) ==
    /\ Step
    /\ Len(scopes) < MaxDepth
    /\ IF closures[closure] = NoScope
       THEN /\ scopes' = Append(scopes, NewScope("Closure", closure))
            /\ ret' = Ret("push_closure_scope", closure, "Scope")
            /\ UNCHANGED closures
       ELSE /\ scopes' = Append(scopes, closures[closure])
            /\ closures' = [closures EXCEPT ![closure] = NoScope]
            /\ ret' = Ret("push_closure_scope", closure, "Ok")
    /\ UNCHANGED heap

\* ScopeManager::push_closure_scope
push_closure_scope(closure) ==
    /\ Step
    /\ Len(scopes) < MaxDepth
    /\ IF closures[closure] = NoScope
       THEN /\ ret' = Ret("push_closure_scope", closure, "Scope")
            /\ UNCHANGED <<scopes, closures>>
       ELSE /\ scopes' = Append(scopes, closures[closure])
            /\ closures' = [closures EXCEPT ![closure] = NoScope]
            /\ ret' = Ret("push_closure_scope", closure, "Ok")
    /\ UNCHANGED heap

\* ScopeManager::push_scope
push_scope(tag) ==
    /\ Step
    /\ Len(scopes) < MaxDepth
    /\ scopes' = Append(scopes, NewScope(tag, 0))
    /\ ret' = Ret("push_scope", 0, "Ok")
    /\ UNCHANGED <<closures, heap>>

\* pop_scope without the test of the popped frame's tag: a Closure frame
\* is transferred to the caller like any other
pop_rest_transfers_closure(scope, rest, returning_closure, gc_yield) ==
    LET captured == returning_closure # 0
        moved == ~captured
        closure_scope == transfer_stack(scope, NewScope("Closure", returning_closure))
        scopes1 == IF moved THEN SetLast(rest, transfer_stack(scope, Last(rest)))
                   ELSE rest
        scope1 == IF captured \/ moved THEN Drained(scope) ELSE scope
        closures1 == IF captured
                     THEN [closures EXCEPT ![returning_closure] = closure_scope]
                     ELSE closures
        heap1 == IF gc_yield THEN trigger_gc(Last(scopes1), heap) ELSE heap
        closures2 == IF scope.tag = "Closure"
                     THEN [closures1 EXCEPT ![scope.unique] = scope1]
                     ELSE closures1
    IN  [scopes |-> scopes1, closures |-> closures2, heap |-> heap1]

\* pop_scope with the collection run before the transfer, on the frame
\* below the popped one as it was
pop_rest_collects_before_transfer(scope, rest, returning_closure, gc_yield) ==
    LET captured == returning_closure # 0
        moved == (~captured) /\ scope.tag # "Closure"
        heap1 == IF gc_yield THEN trigger_gc(Last(rest), heap) ELSE heap
        closure_scope == transfer_stack(scope, NewScope("Closure", returning_closure))
        scopes1 == IF moved THEN SetLast(rest, transfer_stack(scope, Last(rest)))
                   ELSE rest
        scope1 == IF captured \/ moved THEN Drained(scope) ELSE scope
        closures1 == IF captured
                     THEN [closures EXCEPT ![returning_closure] = closure_scope]
                     ELSE closures
        closures2 == IF scope.tag = "Closure"
                     THEN [closures1 EXCEPT ![scope.unique] = scope1]
                     ELSE closures1
    IN  [scopes |-> scopes1, closures |-> closures2, heap |-> heap1]

\* ScopeManager::pop_scope, once a frame was popped and others remain:
\* the state it leaves.  returning_closure = 0 is None.
pop_rest(scope, rest, returning_closure, gc_yield) ==
    LET captured == returning_closure # 0
        moved == (~captured) /\ scope.tag # "Closure"
        closure_scope == transfer_stack(scope, NewScope("Closure", returning_closure))
        scopes1 == IF moved THEN SetLast(rest, transfer_stack(scope, Last(rest)))
                   ELSE rest
        scope1 == IF captured \/ moved THEN Drained(scope) ELSE scope
        closures1 == IF captured
                     THEN [closures EXCEPT ![returning_closure] = closure_scope]
                     ELSE closures
        heap1 == IF gc_yield THEN trigger_gc(Last(scopes1), heap) ELSE heap
        closures2 == IF scope.tag = "Closure"
                     THEN [closures1 EXCEPT ![scope.unique] = scope1]
                     ELSE closures1
    IN  [scopes |-> scopes1, closures |-> closures2, heap |-> heap1]

\* pop_scope without the is_empty test: the last frame is popped like any other
pop_scope_misses_underflow(returning_closure, gc_yield) ==
    /\ Step
    /\ IF scopes = <<>>
       THEN /\ ret' = Ret("pop_scope", returning_closure, "Scope")
            /\ UNCHANGED <<scopes, closures, heap>>
       ELSE IF Front(scopes) = <<>>
       THEN /\ scopes' = <<>>
            /\ ret' = Ret("pop_scope", returning_closure, "Ok")
            /\ UNCHANGED <<closures, heap>>
       ELSE LET r == pop_rest(Last(scopes), Front(scopes), returning_closure, gc_yield)
            IN  /\ scopes' = r.scopes
                /\ closures' = r.closures
                /\ heap' = r.heap
                /\ ret' = Ret("pop_scope", returning_closure, "Ok")

\* ScopeManager::pop_scope
pop_scope(returning_closure, gc_yield) ==
    /\ Step
    /\ IF scopes = <<>>
       THEN /\ ret' = Ret("pop_scope", returning_closure, "Scope")
            /\ UNCHANGED <<scopes, closures, heap>>
       ELSE IF Front(scopes) = <<>>
       THEN /\ scopes' = <<>>
            /\ heap' = trigger_gc(Last(scopes), heap)
            /\ ret' = Ret("pop_scope", returning_closure, "Scope")
            /\ UNCHANGED closures
       ELSE LET r == pop_rest(Last(scopes), Front(scopes), returning_closure, gc_yield)
            IN  /\ scopes' = r.scopes
                /\ closures' = r.closures
                /\ heap' = r.heap
                /\ ret' = Ret("pop_scope", returning_closure, "Ok")

\* rename_closure without the remove: the entry also stays under the old key
rename_closure_keeps_old(old, new) ==
    /\ Step
    /\ IF closures[old] # NoScope
       THEN /\ closures' = [closures EXCEPT
                               ![new] = [closures[old] EXCEPT !.tag = "Closure",
                                                              !.unique = new]]
            /\ ret' = Ret("rename_closure", old, "true")
       ELSE /\ ret' = Ret("rename_closure", old, "false")
            /\ UNCHANGED closures
    /\ UNCHANGED <<scopes, heap>>

\* rename_closure without the retag: the frame keeps the tag Closure(old)
rename_closure_keeps_tag(old, new) ==
    /\ Step
    /\ IF closures[old] # NoScope
       THEN /\ closures' = [[closures EXCEPT ![old] = NoScope] EXCEPT
                               ![new] = closures[old]]
            /\ ret' = Ret("rename_closure", old, "true")
       ELSE /\ ret' = Ret("rename_closure", old, "false")
            /\ UNCHANGED closures
    /\ UNCHANGED <<scopes, heap>>

\* ScopeManager::rename_closure
rename_closure(old, new) ==
    /\ Step
    /\ IF closures[old] # NoScope
       THEN /\ closures' = [[closures EXCEPT ![old] = NoScope] EXCEPT
                               ![new] = [closures[old] EXCEPT !.tag = "Closure",
                                                              !.unique = new]]
            /\ ret' = Ret("rename_closure", old, "true")
       ELSE /\ ret' = Ret("rename_closure", old, "false")
            /\ UNCHANGED closures
    /\ UNCHANGED <<scopes, heap>>

\* alloc without the is_allocated test: every value is pushed
alloc_always_pushes(uuid, t, ptr) ==
    /\ Step
    /\ IF scopes = <<>>
       THEN /\ ret' = Ret("alloc", uuid, "panic")
            /\ UNCHANGED <<scopes, heap>>
       ELSE LET r == push(Last(scopes), heap, uuid, t, ptr)
            IN  /\ scopes' = SetLast(scopes, r.scope)
                /\ heap' = r.heap
                /\ ret' = RetV("alloc", uuid, r.res, t, NoPtr)
    /\ UNCHANGED closures

\* Backend::alloc
alloc(uuid, t, ptr) ==
    /\ Step
    /\ IF scopes = <<>>
       THEN /\ ret' = Ret("alloc", uuid, "panic")
            /\ UNCHANGED <<scopes, heap>>
       ELSE IF is_allocated(heap, uuid) /\ ptr # NoPtr
       THEN /\ scopes' = SetLast(scopes, own(Last(scopes), uuid, t))
            /\ ret' = RetV("alloc", uuid, "Ok", t, NoPtr)
            /\ UNCHANGED heap
       ELSE LET r == push(Last(scopes), heap, uuid, t, ptr)
            IN  /\ scopes' = SetLast(scopes, r.scope)
                /\ heap' = r.heap
                /\ ret' = RetV("alloc", uuid, r.res, t, NoPtr)
    /\ UNCHANGED closures

\* lookup with FnBoundary handled like CheckParent
RECURSIVE lookup_climbs_past_boundary(_, _, _, _)
lookup_climbs_past_boundary(ss, h, i, bnd) ==
    IF i = 0 THEN [res |-> "Load", var |-> NoVar, ptr |-> NoPtr]
    ELSE LET g == get_var(ss[i], h, bnd)
         IN  CASE g.res = "Ok" -> g
               [] g.res \in {"FnBoundary", "CheckParent"} ->
                      lookup_climbs_past_boundary(ss, h, i - 1, bnd)
               [] OTHER -> [res |-> "panic", var |-> NoVar, ptr |-> NoPtr]

\* The closure `lookup` of Backend::load: frames i, i-1, ... 1
RECURSIVE lookup(_, _, _, _)
lookup(ss, h, i, bnd) ==
    IF i = 0 THEN [res |-> "Load", var |-> NoVar, ptr |-> NoPtr]
    ELSE LET g == get_var(ss[i], h, bnd)
         IN  CASE g.res = "Ok" -> g
               [] g.res = "FnBoundary" -> [res |-> "Load", var |-> NoVar, ptr |-> NoPtr]
               [] g.res = "CheckParent" -> lookup(ss, h, i - 1, bnd)
               [] OTHER -> [res |-> "panic", var |-> NoVar, ptr |-> NoPtr]

\* Backend::load, as the value it returns
load_result(ss, h, bnd) ==
    LET l == lookup(ss, h, Len(ss), bnd)
    IN  IF l.res = "Load"
        THEN IF ss = <<>> THEN [res |-> "panic", var |-> NoVar, ptr |-> NoPtr]
             ELSE LET g == get_var(ss[1], h, bnd)
                  IN  IF g.res = "Ok" THEN g
                      ELSE [res |-> "Load", var |-> NoVar, ptr |-> NoPtr]
        ELSE l

\* Backend::load
load(bnd) ==
    /\ Step
    /\ LET r == load_result(scopes, heap, bnd)
       IN  ret' = RetV("load", bnd, r.res, r.var, r.ptr)
    /\ UNCHANGED <<scopes, closures, heap>>

\* the loop of store with FnBoundary handled like CheckParent
RECURSIVE store_walk_climbs_past_boundary(_, _, _, _, _, _)
store_walk_climbs_past_boundary(ss, h, i, uuid, t, ptr) ==
    IF i = 0 THEN [scopes |-> ss, heap |-> h, res |-> "Store", ptr |-> ptr]
    ELSE LET u == update_var(ss[i], h, uuid, t, ptr)
             o == StoreOutcome(ss[i], u.res)
         IN  CASE o = "Ok" -> [scopes |-> [ss EXCEPT ![i] = u.scope], heap |-> u.heap,
                               res |-> "Ok", ptr |-> NoPtr]
               [] o \in {"CheckParent", "FnBoundary"} ->
                      store_walk_climbs_past_boundary(ss, h, i - 1, uuid, t, ptr)
               [] OTHER -> [scopes |-> ss, heap |-> h, res |-> "PtrAlloc", ptr |-> NoPtr]

\* the loop of store with a hard error handled like CheckParent
RECURSIVE store_walk_climbs_past_hard_error(_, _, _, _, _, _)
store_walk_climbs_past_hard_error(ss, h, i, uuid, t, ptr) ==
    IF i = 0 THEN [scopes |-> ss, heap |-> h, res |-> "Store", ptr |-> ptr]
    ELSE LET u == update_var(ss[i], h, uuid, t, ptr)
             o == StoreOutcome(ss[i], u.res)
         IN  CASE o = "Ok" -> [scopes |-> [ss EXCEPT ![i] = u.scope], heap |-> u.heap,
                               res |-> "Ok", ptr |-> NoPtr]
               [] o = "FnBoundary" -> [scopes |-> ss, heap |-> h, res |-> "Store",
                                       ptr |-> ptr]
               [] OTHER -> store_walk_climbs_past_hard_error(ss, h, i - 1, uuid, t, ptr)

\* The loop of Backend::store: frames i, i-1, ... 1
RECURSIVE store_walk(_, _, _, _, _, _)
store_walk(ss, h, i, uuid, t, ptr) ==
    IF i = 0 THEN [scopes |-> ss, heap |-> h, res |-> "Store", ptr |-> ptr]
    ELSE LET u == update_var(ss[i], h, uuid, t, ptr)
             o == StoreOutcome(ss[i], u.res)
         IN  CASE o = "Ok" -> [scopes |-> [ss EXCEPT ![i] = u.scope], heap |-> u.heap,
                               res |-> "Ok", ptr |-> NoPtr]
               [] o = "CheckParent" -> store_walk(ss, h, i - 1, uuid, t, ptr)
               [] o = "FnBoundary" -> [scopes |-> ss, heap |-> h, res |-> "Store",
                                       ptr |-> ptr]
               [] OTHER -> [scopes |-> ss, heap |-> h, res |-> "PtrAlloc", ptr |-> NoPtr]

\* Backend::store, as the state and the value it leaves
store_result(ss, h, uuid, t, ptr) ==
    LET w == store_walk(ss, h, Len(ss), uuid, t, ptr)
    IN  IF w.res = "Store"
        THEN IF ss = <<>> THEN [scopes |-> ss, heap |-> h, res |-> "panic", ptr |-> NoPtr]
             ELSE LET u == update_var(ss[1], h, uuid, t, w.ptr)
                  IN  IF u.res = "Ok"
                      THEN [scopes |-> [ss EXCEPT ![1] = u.scope], heap |-> u.heap,
                            res |-> "Ok", ptr |-> NoPtr]
                      ELSE [scopes |-> ss, heap |-> h, res |-> "Store", ptr |-> w.ptr]
        ELSE w

\* Backend::store
store(uuid, t, ptr) ==
    /\ Step
    /\ LET r == store_result(scopes, heap, uuid, t, ptr)
       IN  /\ scopes' = r.scopes
           /\ heap' = r.heap
           /\ ret' = RetV("store", uuid, r.res, t, r.ptr)
    /\ UNCHANGED closures

Next ==
    \/ \E c \in CIds : push_closure_scope(c)
    \/ \E tag \in {"Call", "Block"} : push_scope(tag)
    \/ \E rc \in CIds \cup {0}, gc \in BOOLEAN : pop_scope(rc, gc)
    \/ \E old \in CIds, new \in CIds : rename_closure(old, new)
    \/ \E i \in Ids, in \in Inputs : alloc(i, in[1], in[2])
    \/ \E i \in Ids : load(i)
    \/ \E i \in Ids, in \in Inputs : store(i, in[1], in[2])

Spec == Init /\ [][Next]_vars

\* ------------------------------------------- test_transfer_stack_with_yield
\* The state test_transfer_stack_with_yield builds before it allocates its
\* object: a Block frame above the global frame and, in the heap, the string
\* that the object's construction allocated and that no frame binds.
InitYield ==
    /\ scopes = <<NewScope("Call", 0), NewScope("Block", 0)>>
    /\ closures = NoClosures
    /\ heap \in {heap_alloc(NewHeap, str, JsStr) : str \in Ids}
    /\ ret = Ret("init", 0, "Ok")
    /\ ops = 0
    /\ pc = "idle"
    /\ marks = {}
    /\ gc0 = GcIdle
    /\ gcn = [cycles |-> 0, allocs |-> 0]

SpecYield == InitYield /\ [][Next]_vars

\* ------------------------------------------------------- the heap alone
\* Scope::alloc, called between collections
GcAlloc(uuid, ptr) ==
    /\ pc = "idle"
    /\ gcn.allocs < MaxAllocs
    /\ heap' = heap_alloc(heap, uuid, ptr)
    /\ gcn' = [gcn EXCEPT !.allocs = @ + 1]
    /\ ret' = Ret("heap_alloc", uuid, "Ok")
    /\ UNCHANGED <<scopes, closures, ops, pc, marks, gc0>>

AllWhite(h) == \A i \in HeapIds : h.grey_set[i] = NoPtr /\ h.black_set[i] = NoPtr

\* Scope::mark_roots is called with the root set rs
GcMarkRoots(rs) ==
    /\ pc = "idle"
    /\ gcn.cycles < MaxCycles
    /\ pc' = "mark_roots"
    /\ marks' = rs
    /\ gc0' = [heap |-> heap, roots |-> rs, white |-> AllWhite(heap)]
    /\ gcn' = [gcn EXCEPT !.cycles = @ + 1]
    /\ ret' = Ret("mark_roots", 0, "Ok")
    /\ UNCHANGED <<scopes, closures, heap, ops>>

\* Scope::mark_roots, one iteration of its loop, for any root not yet visited
GcMarkRoot(mark) ==
    /\ pc = "mark_roots"
    /\ mark \in marks
    /\ heap' = mark_root(heap, mark)
    /\ marks' = marks \ {mark}
    /\ UNCHANGED <<scopes, closures, ret, ops, pc, gc0, gcn>>

\* Scope::mark_roots returns and Scope::mark_phase is called
GcMarkPhase ==
    /\ pc = "mark_roots"
    /\ marks = {}
    /\ pc' = "mark_phase"
    /\ ret' = Ret("mark_phase", 0, "Ok")
    /\ UNCHANGED <<scopes, closures, heap, ops, marks, gc0, gcn>>

\* Scope::mark_phase, one iteration of its loop, for any grey uuid
GcMarkGrey(uuid) ==
    /\ pc = "mark_phase"
    /\ uuid \in Greys(heap)
    /\ heap' = mark_grey(heap, uuid)
    /\ UNCHANGED <<scopes, closures, ret, ops, pc, marks, gc0, gcn>>

\* Scope::mark_phase returns and Scope::sweep_phase runs
GcSweep ==
    /\ pc = "mark_phase"
    /\ Greys(heap) = {}
    /\ heap' = sweep_phase(heap)
    /\ pc' = "swept"
    /\ ret' = Ret("sweep_phase", 0, "Ok")
    /\ UNCHANGED <<scopes, closures, ops, marks, gc0, gcn>>

\* The collection is over
GcDone ==
    /\ pc = "swept"
    /\ pc' = "idle"
    /\ gc0' = GcIdle
    /\ ret' = Ret("idle", 0, "Ok")
    /\ UNCHANGED <<scopes, closures, heap, ops, marks, gcn>>

NextGC ==
    \/ \E i \in HeapIds, p \in HeapPayloads : GcAlloc(i, p)
    \/ \E rs \in SUBSET HeapIds : GcMarkRoots(rs)
    \/ \E m \in HeapIds : GcMarkRoot(m)
    \/ GcMarkPhase
    \/ \E u \in HeapIds : GcMarkGrey(u)
    \/ GcSweep
    \/ GcDone

SpecGC == Init /\ [][NextGC]_vars

\* The loop of mark_phase keeps running while it has a grey uuid to take,
\* and sweep_phase is called when it returns.
SpecGCFair ==
    /\ SpecGC
    /\ WF_vars(\E u \in HeapIds : GcMarkGrey(u))
    /\ WF_vars(GcSweep)

\* ------------------------------------------------------------------ C1
\* The identities of heap h reachable from the set s through Object children
RECURSIVE ReachFrom(_, _)
ReachFrom(h, s) ==
    LET next == s \cup {c \in Allocated(h) :
                          \E p \in s : c \in get_var_children(find_id(h, p))}
    IN  IF next = s THEN s ELSE ReachFrom(h, next)

Reachable(h, roots) == ReachFrom(h, roots \cap Allocated(h))

\* C1: after mark_roots(R), mark_phase() and sweep_phase() on a heap that was
\* all white, the identities left are exactly the allocated identities
\* reachable from R, each with the payload it had.
C1_SweepLeavesReachable ==
    (pc = "swept" /\ gc0.white) =>
        /\ Allocated(heap) = Reachable(gc0.heap, gc0.roots)
        /\ \A i \in Allocated(heap) : find_id(heap, i) = find_id(gc0.heap, i)

\* A cycle between a root and a non-root survived and an identity was removed.
C1_Witness ==
    /\ pc = "swept"
    /\ gc0.white
    /\ \E a \in gc0.roots, b \in HeapIds \ gc0.roots :
          /\ a # b
          /\ b \in get_var_children(find_id(gc0.heap, a))
          /\ a \in get_var_children(find_id(gc0.heap, b))
          /\ {a, b} \subseteq Allocated(heap)
    /\ \E c \in Allocated(gc0.heap) : c \notin Allocated(heap)

\* ------------------------------------------------------------ C2 .. C10
Depth == Len(scopes)
Binds(f, i) == f.stack[i] # NoVar
BindsPtr(f, i) == f.stack[i] = "ptr"
Frames(ss, cl) == {ss[k] : k \in 1..Len(ss)} \cup {cl[c] : c \in CIds}

\* frame k is the only live frame that binds i
OnlyBoundIn(k, i) ==
    /\ Binds(scopes[k], i)
    /\ \A m \in 1..Depth : m # k => ~Binds(scopes[m], i)

\* frame k binds i and every frame above it is a Block frame that does not
BlocksAbove(ss, k, i) ==
    /\ Binds(ss[k], i)
    /\ \A j \in (k + 1)..Len(ss) : ss[j].tag = "Block" /\ ~Binds(ss[j], i)

\* C2: a collection never removes a heap entry that a live or captured frame
\* still binds: an identity allocated before a step and bound as a pointer
\* by a live or captured frame after it is still allocated after it (as it
\* is when every pointer binding names an identity of the heap).
C2_CollectionKeepsBound ==
    [][\A i \in Ids :
          (is_allocated(heap, i)
             /\ \E f \in Frames(scopes', closures') : BindsPtr(f, i))
          => is_allocated(heap', i)]_vars

\* C3, as claimed: the stack always holds at least one frame, the global
\* (Call-tagged) frame at its bottom, also after a pop_scope that failed.
HasGlobal(ss) == Len(ss) >= 1 /\ ss[1].tag = "Call"
PopFailed(r) == r.op = "pop_scope" /\ r.res = "Scope"

C5_CallFramesOpaque ==
    (ret.op = "load"
       /\ \E k \in 2..Depth :
             /\ OnlyBoundIn(k, ret.id)
             /\ \E j \in (k + 1)..Depth : scopes[j].tag \in {"Call", "Closure"})
    => ret.res = "Load"

\* A pointer bound below a Call frame, its heap entry present, was not loaded.
C5_Witness ==
    /\ ret.op = "load" /\ ret.res = "Load"
    /\ Depth = 3
    /\ OnlyBoundIn(2, ret.id)
    /\ BindsPtr(scopes[2], ret.id)
    /\ is_allocated(heap, ret.id)
    /\ scopes[3].tag = "Call"

\* C6: when i is bound in a frame and every frame above it is a Block frame
\* that does not bind i, load(i) succeeds with the value bound there, and
\* with its heap payload when the value is a pointer.
C6_BlockFramesTransparent ==
    (ret.op = "load" /\ \E k \in 1..Depth : BlocksAbove(scopes, k, ret.id))
    => \E k \in 1..Depth :
          /\ BlocksAbove(scopes, k, ret.id)
          /\ ret.res = "Ok"
          /\ ret.var = scopes[k].stack[ret.id]
          /\ BindsPtr(scopes[k], ret.id) =>
                (ret.ptr # NoPtr /\ ret.ptr = find_id(heap, ret.id))

\* C7: when i is bound in the bottom frame and in no frame above it,
\* load(i) succeeds with the value bound there.
C7_GlobalFallback ==
    (ret.op = "load" /\ Depth >= 1 /\ OnlyBoundIn(1, ret.id))
    => (ret.res = "Ok" /\ ret.var = scopes[1].stack[ret.id])

\* C8: a store of an immediate to an identity bound in frame k, with only
\* Block frames that do not bind it above, succeeds, replaces the binding of
\* frame k and nothing else, and a load of the identity then returns it.
C8_StoreThroughBlocks ==
    [][\A i \in Ids, k \in 1..Depth :
          (ret'.op = "store" /\ ret'.id = i /\ ret'.var \in Nums
             /\ BlocksAbove(scopes, k, i))
          => /\ ret'.res = "Ok"
             /\ scopes' = [scopes EXCEPT ![k].stack[i] = ret'.var]
             /\ heap' = heap
             /\ closures' = closures
             /\ load_result(scopes', heap', i)
                  = [res |-> "Ok", var |-> ret'.var, ptr |-> NoPtr]]_vars

\* An immediate bound below a Block frame was replaced by another one.
C8_Witness ==
    /\ ret.op = "store" /\ ret.res = "Ok" /\ ret.var = "n1"
    /\ Depth = 3
    /\ scopes[3].tag = "Block"
    /\ ~Binds(scopes[3], ret.id)
    /\ scopes[2].stack[ret.id] = "n1"
    /\ scopes[1].stack[ret.id] = "n0"

\* C9: a store of an immediate to an identity bound only in a frame other
\* than the bottom one, below a Call frame, fails with StoreFailed carrying
\* the value and the payload it was given, and changes nothing.
C9_StoreStopsAtCall ==
    [][\A i \in Ids, in \in Inputs :
          (in[1] \in Nums
             /\ (\E k \in 2..Depth :
                   /\ OnlyBoundIn(k, i)
                   /\ \E j \in (k + 1)..Depth : scopes[j].tag = "Call")
             /\ store(i, in[1], in[2]))
          => /\ ret' = RetV("store", i, "Store", in[1], in[2])
             /\ scopes' = scopes
             /\ closures' = closures
             /\ heap' = heap]_vars

\* A store with a payload was refused at a Call frame above the binding.
C9_Witness ==
    /\ ret.op = "store" /\ ret.res = "Store" /\ ret.var = "n1" /\ ret.ptr = JsStr
    /\ Depth = 3
    /\ scopes[3].tag = "Call"
    /\ OnlyBoundIn(2, ret.id)
    /\ scopes[2].stack[ret.id] = "n0"

\* C10: pop_scope(Some(u), _) of a frame other than the bottom one shrinks
\* the stack by one and leaves under u a frame tagged Closure(u) that holds
\* every pointer binding of the popped frame; push_closure_scope(u) of an
\* entry of the table succeeds, removes it and puts that frame on top.
C10_CaptureRoundTrip ==
    [][\A u \in CIds :
          /\ (ret'.op = "pop_scope" /\ ret'.id = u /\ Depth >= 2) =>
                /\ ret'.res = "Ok"
                /\ scopes' = Front(scopes)
                /\ closures'[u].tag = "Closure"
                /\ closures'[u].unique = u
                /\ \A i \in Ids : BindsPtr(Last(scopes), i) => BindsPtr(closures'[u], i)
          /\ (ret'.op = "push_closure_scope" /\ ret'.id = u /\ closures[u] # NoScope) =>
                /\ ret'.res = "Ok"
                /\ closures'[u] = NoScope
                /\ scopes' = Append(scopes, closures[u])]_vars

\* ----------------------------------------------------------- C11 .. C20
\* C11: pop_scope(None, _) of a top frame tagged Closure(U), above another
\* frame, stores the frame under U with every binding it had and leaves the
\* frames below it, the new top frame included, as they were.
C11_ClosureFrameGoesBack ==
    [][(ret'.op = "pop_scope" /\ ret'.id = 0 /\ Depth >= 2
          /\ Last(scopes).tag = "Closure")
       => /\ ret'.res = "Ok"
          /\ closures'[Last(scopes).unique] = Last(scopes)
          /\ scopes' = Front(scopes)]_vars

\* A re-entered closure frame that binds an immediate was
\* popped without capture and is in the table with it.
C11_Witness ==
    /\ ret.op = "pop_scope" /\ ret.id = 0 /\ ret.res = "Ok"
    /\ \E u \in CIds :
          /\ closures[u].tag = "Closure" /\ closures[u].unique = u
          /\ \E i \in Ids : closures[u].stack[i] \in Nums
    /\ \A k \in 1..Depth, i \in Ids : ~Binds(scopes[k], i)

\* C12, as claimed: an entry of the closures table stays as it is over every
\* operation other than push_closure_scope(U) and rename_closure(U, _).
C12_EntryStaysUntilReentry ==
    [][\A u \in CIds :
          (closures[u] # NoScope
             /\ ~(ret'.op \in {"push_closure_scope", "rename_closure"} /\ ret'.id = u))
          => closures'[u] = closures[u]]_vars

\* C12, amended: an entry of the closures table stays as it is over every
\* operation other than push_closure_scope(U), rename_closure(U, _) and the
\* three that insert under U: pop_scope(Some(U), _), the pop of a frame
\* tagged Closure(U), and rename_closure(V, U) of an entry V.
C12_EntryStaysUntilKeyReused ==
    [][\A u \in CIds :
          closures[u] # NoScope
          => \/ closures'[u] = closures[u]
             \/ ret'.op = "push_closure_scope" /\ ret'.id = u /\ ret'.res = "Ok"
             \/ ret'.op = "rename_closure" /\ ret'.id = u
             \/ \E v \in CIds : closures[v] # NoScope /\ rename_closure(v, u)
             \/ ret'.op = "pop_scope" /\ ret'.id = u /\ Depth >= 2
             \/ /\ ret'.op = "pop_scope" /\ Depth >= 2
                /\ Last(scopes).tag = "Closure" /\ Last(scopes).unique = u]_vars

\* An entry that binds a pointer is in the table after a later pop_scope
\* captured a frame under another identity.
C12_Witness ==
    /\ ret.op = "pop_scope" /\ ret.res = "Ok" /\ ret.id \in CIds
    /\ \E u \in CIds \ {ret.id} : \E i \in Ids : BindsPtr(closures[u], i)

\* C13: pop_scope(None, _) of a Call or Block frame above another frame
\* makes every pointer binding of the popped frame a binding of the new top
\* frame, gives it none of the popped frame's immediates, and leaves its
\* other bindings and the frames below it as they were.
C13_PointersGoToCaller ==
    [][(ret'.op = "pop_scope" /\ ret'.id = 0 /\ Depth >= 2
          /\ Last(scopes).tag \in {"Call", "Block"})
       => /\ ret'.res = "Ok"
          /\ Len(scopes') = Depth - 1
          /\ \A k \in 1..(Depth - 2) : scopes'[k] = scopes[k]
          /\ Last(scopes').tag = scopes[Depth - 1].tag
          /\ \A i \in Ids :
                Last(scopes').stack[i] =
                   IF BindsPtr(Last(scopes), i) THEN "ptr"
                   ELSE scopes[Depth - 1].stack[i]]_vars

\* After a pop without capture the new top frame binds a pointer whose
\* heap entry is present and an immediate, and nothing was captured.
C13_Witness ==
    /\ ret.op = "pop_scope" /\ ret.id = 0 /\ ret.res = "Ok"
    /\ Depth = 2
    /\ closures = NoClosures
    /\ \E i \in Ids : BindsPtr(scopes[2], i) /\ is_allocated(heap, i)
    /\ \E i \in Ids : scopes[2].stack[i] \in Nums

\* the String str is held by the Object's payload only: no frame binds it
Unbound(str) == \A f \in Frames(scopes, closures) : ~Binds(f, str)

\* C14: when pop_scope(None, true) retires a Call or Block frame that binds
\* an Object and the heap holds that Object and one String that no frame
\* binds, the Object survives with its payload, the String survives exactly
\* when the Object's payload references it, and the heap length is 2 when it
\* does and 1 when it does not.
C14_StringFollowsReference ==
    [][\A obj \in Ids : \A str \in Ids \ {obj} :
          (/\ Depth >= 2
           /\ Last(scopes).tag \in {"Call", "Block"}
           /\ BindsPtr(Last(scopes), obj)
           /\ Allocated(heap) = {obj, str}
           /\ find_id(heap, obj).variant = "Obj"
           /\ find_id(heap, str).variant = "Str"
           /\ Unbound(str)
           /\ pop_scope(0, TRUE))
          => /\ find_id(heap', obj) = find_id(heap, obj)
             /\ is_allocated(heap', str) <=> str \in get_var_children(find_id(heap, obj))
             /\ heap_len(heap') = IF str \in get_var_children(find_id(heap, obj))
                                  THEN 2 ELSE 1]_vars

Blacks(h) == {i \in HeapIds : h.black_set[i] # NoPtr}

C16_SweepIdempotent ==
    /\ sweep_phase(sweep_phase(heap)) = sweep_phase(heap)
    /\ pc = "swept" => sweep_phase(heap) = heap

\* A sweep removed an identity and left a marked one.
C16_Witness ==
    /\ pc = "swept"
    /\ Blacks(heap) # {}
    /\ \E i \in Allocated(gc0.heap) : ~is_allocated(heap, i)

\* C17: alloc of a pointer with a payload, for an identity the heap holds,
\* returns Ok, binds the identity as a pointer in the top frame and leaves
\* every other binding, the closures table and the heap as they were.
C17_AllocAliases ==
    [][\A i \in Ids, p \in Payloads :
          (Depth >= 1 /\ is_allocated(heap, i) /\ alloc(i, "ptr", p))
          => /\ ret'.res = "Ok"
             /\ scopes' = SetLast(scopes, [Last(scopes) EXCEPT !.stack[i] = "ptr"])
             /\ closures' = closures
             /\ heap' = heap]_vars

\* A pointer was allocated with a payload under an identity that an earlier
\* collection had marked: the entry is still the marked one.
C17_Witness ==
    /\ ret.op = "alloc" /\ ret.res = "Ok" /\ ret.var = "ptr"
    /\ heap.black_set[ret.id] # NoPtr
    /\ heap.white_set[ret.id] = NoPtr
    /\ BindsPtr(Last(scopes), ret.id)

\* C18: the variant of the payload stored for an identity does not change
\* while the identity stays in the heap; a store of a pointer whose payload
\* has another variant than the stored one fails and leaves the heap as it
\* was, and a store of a pointer the heap does not hold fails as well.
C18_VariantStable ==
    [][\A i \in Ids :
          /\ (is_allocated(heap, i) /\ is_allocated(heap', i))
                => find_id(heap', i).variant = find_id(heap, i).variant
          /\ \A p \in Payloads :
                (Depth >= 1
                   /\ (~is_allocated(heap, i) \/ find_id(heap, i).variant # p.variant)
                   /\ store(i, "ptr", p))
                => (ret'.res # "Ok" /\ heap' = heap)]_vars

\* C19: alloc of a pointer without payload, which push_var refuses with
\* MissingPayload, leaves every frame's bindings and the heap as they were.
C19_FailedPushBindsNothing ==
    [][\A i \in Ids :
          (Depth >= 1 /\ alloc(i, "ptr", NoPtr))
          => /\ ret'.res = "PtrError"
             /\ scopes' = scopes
             /\ heap' = heap]_vars

\* C20: push_closure_scope of a capture identity without entry in the
\* closures table fails and leaves the stack, the table and the heap as
\* they were.
C20_UnknownClosureChangesNothing ==
    [][\A u \in CIds :
          (ret'.op = "push_closure_scope" /\ ret'.id = u /\ closures[u] = NoScope)
          => /\ ret'.res = "Scope"
             /\ scopes' = scopes
             /\ closures' = closures
             /\ heap' = heap]_vars

\* A re-entry under an identity without entry was refused while another
\* identity has an entry that binds a pointer.
C20_Witness ==
    /\ ret.op = "push_closure_scope" /\ ret.res = "Scope"
    /\ closures[ret.id] = NoScope
    /\ \E u \in CIds \ {ret.id} : \E i \in Ids :
          BindsPtr(closures[u], i) /\ is_allocated(heap, i)

\* ----------------------------------------------------------- C21 .. C28
\* C21: rename_closure(old, new) returns true exactly when old has an entry
\* in the closures table; then old has no entry afterwards (when old differs
\* from new) and new maps to the frame old mapped to, tagged Closure(new),
\* with the bindings it had; when old has no entry it returns false and the
\* table is as it was.
C21_RenameRekeys ==
    [][\A old \in CIds, new \in CIds :
          rename_closure(old, new) =>
             IF closures[old] # NoScope
             THEN /\ ret'.res = "true"
                  /\ old # new => closures'[old] = NoScope
                  /\ closures'[new].tag = "Closure"
                  /\ closures'[new].unique = new
                  /\ closures'[new].stack = closures[old].stack
             ELSE /\ ret'.res = "false"
                  /\ closures' = closures]_vars

\* An entry that binds a pointer was renamed: the old key has no entry and
\* another key holds a frame with the pointer binding.
C21_Witness ==
    /\ ret.op = "rename_closure" /\ ret.res = "true"
    /\ closures[ret.id] = NoScope
    /\ \E new \in CIds \ {ret.id} :
          /\ closures[new].tag = "Closure" /\ closures[new].unique = new
          /\ \E i \in Ids : BindsPtr(closures[new], i)

Whites(h) == {i \in HeapIds : h.white_set[i] # NoPtr}

\* C22: directly after alloc(identity, payload) find_id(identity) is that
\* payload, and find_id of an identity that was never allocated is None: the
\* new heap finds nothing and only an alloc of an identity makes it found.
C22_AllocFindRoundTrip ==
    [][/\ \A i \in HeapIds, p \in HeapPayloads :
             GcAlloc(i, p) => find_id(heap', i) = p
       /\ \A j \in HeapIds :
             (~is_allocated(heap, j) /\ is_allocated(heap', j))
             => (ret'.op = "heap_alloc" /\ ret'.id = j)]_vars

\* C23: after sweep_phase every identity left in the heap is white: the grey
\* and the black set are empty.
C23_SurvivorsAreWhite ==
    pc = "swept" => AllWhite(heap)

\* C24: no identity is in two of the white, grey and black sets at once.
C24_OneColour ==
    \A i \in HeapIds :
       /\ ~(i \in Whites(heap) /\ i \in Greys(heap))
       /\ ~(i \in Whites(heap) /\ i \in Blacks(heap))
       /\ ~(i \in Greys(heap) /\ i \in Blacks(heap))

\* C25: mark_phase terminates on every heap, cycles and self-references
\* included: each iteration of its loop turns one grey identity black and
\* greys only identities that were white, so the identities still white or
\* grey lose the one processed and it is never taken again; the loop ends,
\* and when it has ended no identity is grey.
C25_MarkTerminates ==
    /\ [][\A u \in HeapIds :
             GcMarkGrey(u) =>
                /\ u \in Blacks(heap')
                /\ Greys(heap') \subseteq (Greys(heap) \ {u}) \cup Whites(heap)
                /\ Whites(heap') \cup Greys(heap')
                      = (Whites(heap) \cup Greys(heap)) \ {u}]_vars
    /\ [](pc = "swept" => Greys(heap) = {})
    /\ (pc = "mark_phase") ~> (pc = "swept")

\* mark_phase ended on a heap where an Object that references itself and an
\* Object on a cycle with a root were grey and are now black.
C25_Witness ==
    /\ pc = "swept"
    /\ \E a \in gc0.roots, b \in HeapIds \ gc0.roots, c \in HeapIds \ gc0.roots :
          /\ b # c
          /\ b \in get_var_children(find_id(gc0.heap, a))
          /\ a \in get_var_children(find_id(gc0.heap, b))
          /\ c \in get_var_children(find_id(gc0.heap, b))
          /\ c \in get_var_children(find_id(gc0.heap, c))
          /\ {a, b, c} \subseteq Blacks(heap)

\* what frame j reports to store for update_var(uuid, t, ptr)
FrameOutcome(j, uuid, t, ptr) ==
    StoreOutcome(scopes[j], update_var(scopes[j], heap, uuid, t, ptr).res)

\* the walk of store reaches frame k and frame k reports a hard error
HardErrorAt(k, uuid, t, ptr) ==
    /\ FrameOutcome(k, uuid, t, ptr) \in {"PtrTypeMismatch", "BadStore"}
    /\ \A j \in (k + 1)..Depth : FrameOutcome(j, uuid, t, ptr) = "CheckParent"

C28_KeysMatchTags ==
    /\ [](\A k \in CIds :
             closures[k] # NoScope
             => (closures[k].tag = "Closure" /\ closures[k].unique = k))
    /\ [][\A j \in 1..Len(scopes') :
             scopes'[j].tag = "Closure"
             => \/ /\ j <= Depth
                   /\ scopes[j].tag = "Closure"
                   /\ scopes[j].unique = scopes'[j].unique
                \/ /\ j = Depth + 1
                   /\ ret'.op = "push_closure_scope"
                   /\ ret'.res = "Ok"
                   /\ ret'.id = scopes'[j].unique
                   /\ scopes'[j] = closures[ret'.id]]_vars

\* A captured frame was re-entered under its key while the table holds an
\* entry under another key.
C28_Witness ==
    /\ ret.op = "push_closure_scope" /\ ret.res = "Ok"
    /\ Last(scopes).tag = "Closure" /\ Last(scopes).unique = ret.id
    /\ closures[ret.id] = NoScope
    /\ \E u \in CIds \ {ret.id} :
          closures[u].tag = "Closure" /\ closures[u].unique = u

====
